---- MODULE Spec2Model ----
(***************************************************************************)
(* Model of generate_solar_data.py: the generation of a one-minute solar   *)
(* position series for a (location, year) and its encoding into the        *)
(* "SLRD" binary file.                                                     *)
(*                                                                         *)
(* Instants are integer minutes counted from 00:00 UTC of January 1 of the *)
(* year at hand; a local wall-clock minute is the instant plus the UTC     *)
(* offset (in minutes) the timezone has at that instant.  A DataFrame is   *)
(* held by its first instant and its row count: row i is the value the     *)
(* position function returned for instant first + i.  A file is the        *)
(* sequence of extents written to it: runs of bytes (the struct.pack       *)
(* output) and arrays of float32 elements (the ndarray.tobytes output).    *)
(* The file system is a partial map from paths to files.  Record fields   *)
(* are written in one fixed order throughout the module.                   *)
(***************************************************************************)
EXTENDS Integers, Sequences, FiniteSets, TLC

-----------------------------------------------------------------------------
(* Program constants *)

MAGIC == <<83, 76, 82, 68>>          \* b"SLRD"

VERSION == 1

MINUTES_PER_DAY == 1440

STREAMING_DIR == "Assets/StreamingAssets/SolarData"

RESOURCES_DIR == "Assets/Resources/SolarData"

\* The city table: name -> location.
\* Latitude and longitude are held in units of 1e-4 degree, altitude in metres.
Cities ==
  << [name |-> "Manhattan", latitude |-> 407826, longitude |-> -739656,
      altitude |-> 33, timezone |-> "America/New_York"] >>

-----------------------------------------------------------------------------
(* Bounds and input sets *)

MaxArgs == 2        \* longest --cities list drawn

MaxRows == 2        \* longest series a caller builds by hand

\* Years drawn as inputs: 2024 is a leap year, 2014 and 2025 are not.  In 2014
\* Europe/Moscow changed its offset for good.
Years == {2014, 2024}

MainYears == {2024, 2025}

\* The --years lists drawn: one year, several years, a year given twice.
MainYearLists ==
  {<<2024>>, <<2025>>, <<2024, 2025>>, <<2025, 2024, 2025>>}

\* Names a user may pass to --cities.
ArgNames == {"Manhattan", "manhattan", "all", "ALL", "Gotham"}

\* Locations a caller hands to compute_solar_positions.  "Nowhere" has a
\* latitude of 91 degrees.
Locations ==
  { [name |-> "Manhattan", latitude |-> 407826, longitude |-> -739656,
     altitude |-> 33, timezone |-> "America/New_York"],
    [name |-> "Moscow", latitude |-> 557558, longitude |-> 376173,
     altitude |-> 156, timezone |-> "Europe/Moscow"],
    [name |-> "Nowhere", latitude |-> 910000, longitude |-> 0,
     altitude |-> 0, timezone |-> "UTC"] }

-----------------------------------------------------------------------------
(* Calendar and timezone arithmetic (calendar.isleap, pandas.Timestamp,   *)
(* pandas.date_range)                                                      *)

isleap(year) == (year % 4 = 0 /\ year % 100 # 0) \/ year % 400 = 0

DaysInYear(year) == IF isleap(year) THEN 366 ELSE 365

\* UTC offset, in minutes, a timezone has at 00:00 UTC of January 1.
TzBase(tz, year) ==
  CASE tz = "America/New_York" -> -300
    [] tz = "Europe/Moscow"    -> IF year <= 2014 THEN 240 ELSE 180
    [] OTHER                   -> 0

\* The offset changes of a timezone within a year: at instant `at` the
\* offset becomes `to`.  America/New_York: second Sunday of March and first
\* Sunday of November, 02:00 local; Europe/Moscow: 26 October 2014, 02:00.
TzTransitions(tz, year) ==
  CASE tz = "America/New_York" /\ year = 2024 ->
         { [at |-> 99780, to |-> -240], [at |-> 442440, to |-> -300] }
    [] tz = "America/New_York" /\ year \in {2014, 2025} ->
         { [at |-> 96900, to |-> -240], [at |-> 439560, to |-> -300] }
    [] tz = "Europe/Moscow" /\ year = 2014 ->
         { [at |-> 429000, to |-> 180] }
    [] OTHER -> {}

UtcOffset(tz, year, u) ==
  LET past == { t \in TzTransitions(tz, year) : t.at <= u }
  IN  IF past = {} THEN TzBase(tz, year)
      ELSE (CHOOSE t \in past : \A s \in past : s.at <= t.at).to

TzOffsets(tz, year) ==
  {TzBase(tz, year)} \cup { t.to : t \in TzTransitions(tz, year) }

\* pd.Timestamp(<naive local time>, tz=...): the instant whose local wall
\* clock reads `local` (minutes since local midnight of January 1).
Localize(tz, year, local) ==
  CHOOSE u \in { local - o : o \in TzOffsets(tz, year) } :
    u + UtcOffset(tz, year, u) = local

\* Local wall clock of an instant.
LocalMinuteOfYear(tz, year, u) == u + UtcOffset(tz, year, u)

LocalDayOfYear(tz, year, u) ==
  (LocalMinuteOfYear(tz, year, u) \div MINUTES_PER_DAY) + 1

LocalMinuteOfDay(tz, year, u) ==
  LocalMinuteOfYear(tz, year, u) % MINUTES_PER_DAY

\* start, end and pd.date_range(start, end, freq="1min").
RangeStart(tz, year) == Localize(tz, year, 0)

RangeEnd(tz, year) ==
  Localize(tz, year, DaysInYear(year) * MINUTES_PER_DAY - 1)

RangeLen(tz, year) ==
  IF RangeEnd(tz, year) >= RangeStart(tz, year)
  THEN RangeEnd(tz, year) - RangeStart(tz, year) + 1
  ELSE 0

-----------------------------------------------------------------------------
(* DataFrames and the values of the external position function *)

\* What pvlib.solarposition.get_solarposition may do: return finite values
\* for every instant, raise, or return a non-finite value in some row.
Outcomes == {"ok", "raise", "nan_first", "inf_last"}

NoDf ==
  [latitude |-> 0, longitude |-> 0, altitude |-> 0, timezone |-> "",
   year |-> 0, src |-> "none", first |-> 0, n |-> 0, bad |-> -1,
   cls |-> "finite"]

\* The frame get_solarposition returns for the instants first .. first+n-1.
SolposFrame(loc, year, first, n, out) ==
  [latitude |-> loc.latitude, longitude |-> loc.longitude,
   altitude |-> loc.altitude, timezone |-> loc.timezone, year |-> year,
   src |-> "spa", first |-> first, n |-> n,
   bad |-> CASE out = "nan_first" /\ n > 0 -> 0
             [] out = "inf_last" /\ n > 0  -> n - 1
             [] OTHER -> -1,
   cls |-> CASE out = "nan_first" -> "nan"
             [] out = "inf_last"  -> "inf"
             [] OTHER -> "finite"]

\* A frame of n rows a caller of write_binary builds by hand.
CallerFrame(n) == [NoDf EXCEPT !.src = "caller", !.n = n]

\* df[col].values[i]: a float64.
Column(d, col, i) ==
  [latitude |-> d.latitude, longitude |-> d.longitude,
   altitude |-> d.altitude, year |-> d.year, t |-> d.first + i,
   src |-> d.src, cls |-> IF i = d.bad THEN d.cls ELSE "finite",
   col |-> col, dtype |-> "float64"]

\* ndarray.astype(np.float32): the nearest float32; NaN and the infinities
\* are kept.
AsFloat32(v) == [v EXCEPT !.dtype = "float32"]

\* A writer that fills the even slots with the elevations.
InterleavedSwapped(d, j) ==
  IF j % 2 = 0
  THEN AsFloat32(Column(d, "apparent_elevation", j \div 2))
  ELSE AsFloat32(Column(d, "azimuth", j \div 2))

\* interleaved[0::2] = azimuths; interleaved[1::2] = elevations
Interleaved(d, j) ==
  IF j % 2 = 0
  THEN AsFloat32(Column(d, "azimuth", j \div 2))
  ELSE AsFloat32(Column(d, "apparent_elevation", j \div 2))

-----------------------------------------------------------------------------
(* struct.pack / struct.unpack, little-endian two's complement *)

RECURSIVE PackLE(_, _)
PackLE(v, nbytes) ==
  IF nbytes = 0 THEN <<>>
  ELSE <<v % 256>> \o PackLE(v \div 256, nbytes - 1)

\* struct.pack("<h", v) raises struct.error outside this range.
InInt16(v) == -32768 <= v /\ v <= 32767

RECURSIVE UnpackLE(_)
UnpackLE(bytes) ==
  IF Len(bytes) = 1
  THEN (IF bytes[1] >= 128 THEN bytes[1] - 256 ELSE bytes[1])
  ELSE bytes[1] + 256 * UnpackLE(Tail(bytes))

-----------------------------------------------------------------------------
(* Files *)

\* A path that leaves the year out.
BinPathNoYear(city_name, year) ==
  STREAMING_DIR \o "/" \o city_name \o "/sun_pos.bin"

BinPath(city_name, year) ==
  STREAMING_DIR \o "/" \o city_name \o "/sun_pos_" \o ToString(year) \o ".bin"

CsvPath(city_name, year) ==
  RESOURCES_DIR \o "/" \o city_name \o "/sun_pos_" \o ToString(year) \o ".csv"

\* A run of plain bytes.
BytesExt(seq) == [n |-> Len(seq), v |-> seq, k |-> "bytes", df |-> NoDf]

\* n float32 elements of the interleaved array of frame d.
ArrExt(d, n) == [n |-> n, v |-> <<>>, k |-> "f32", df |-> d]

\* The text DataFrame.to_csv writes: a header line and one line per row.
CsvExt(d) == [n |-> d.n, v |-> <<>>, k |-> "csv", df |-> d]

Absent == [exists |-> FALSE, data |-> <<>>]

\* The file at a path; a path the file system does not know has no file.
FileAt(files, path) == IF path \in DOMAIN files THEN files[path] ELSE Absent

\* The file system with the file at path replaced.
SetFile(files, path, file) ==
  [q \in DOMAIN files \cup {path} |-> IF q = path THEN file ELSE files[q]]

\* open(path, "ab"): the file is created, or kept as it is.
OpenAppend(file) == [file EXCEPT !.exists = TRUE]

\* open(path, "wb"): the file is created, or truncated to nothing.
OpenWB(file) == [exists |-> TRUE, data |-> <<>>]

ExtSize(e) == IF e.k = "f32" THEN 4 * e.n ELSE e.n

\* f.write(...) on a file opened for writing: the data goes to the end.
\* Bytes that follow bytes make one run; writing nothing changes nothing.
FileWrite(file, ext) ==
  LET data == file.data
      last == Len(data)
  IN  IF ExtSize(ext) = 0 THEN file
      ELSE IF ext.k = "bytes" /\ last > 0 /\ data[last].k = "bytes"
      THEN [file EXCEPT !.data[last] = BytesExt(data[last].v \o ext.v)]
      ELSE [file EXCEPT !.data = Append(@, ext)]

RECURSIVE DataSize(_)
DataSize(data) ==
  IF data = <<>> THEN 0 ELSE ExtSize(Head(data)) + DataSize(Tail(data))

\* os.path.getsize
FileSize(file) == DataSize(file.data)

\* The extent holding the byte at offset off, and the offset within it.
RECURSIVE Locate(_, _)
Locate(data, off) ==
  IF data = <<>> THEN [at |-> 0, e |-> BytesExt(<<>>)]
  ELSE IF off < ExtSize(Head(data)) THEN [at |-> off, e |-> Head(data)]
  ELSE Locate(Tail(data), off - ExtSize(Head(data)))

\* The byte at offset off; -1 where the file holds no plain byte.
ByteAt(file, off) ==
  LET l == Locate(file.data, off)
  IN  IF off >= 0 /\ l.e.k = "bytes" /\ l.at < l.e.n
      THEN l.e.v[l.at + 1] ELSE -1

BytesAt(file, off, n) == [i \in 1..n |-> ByteAt(file, off + i - 1)]

\* The float32 stored at byte offset off; NoValue where there is none.
NoValue == AsFloat32(Column(NoDf, "none", -1))

Float32At(file, off) ==
  LET l == Locate(file.data, off)
  IN  IF off >= 0 /\ l.e.k = "f32" /\ l.at % 4 = 0 /\ l.at < 4 * l.e.n
      THEN Interleaved(l.e.df, l.at \div 4)
      ELSE NoValue

-----------------------------------------------------------------------------
(* State *)

Procs == {1, 2}

VARIABLES
  fs,           \* the file system: path -> file
  pc,           \* per process: where it is in its job
  job,          \* per process: the (city, location, year, csv) it works on
  df,           \* per process: the DataFrame it holds
  wb,           \* per process: path and year of its write_binary call
  ret,          \* per process: what write_binary returned (-1: nothing yet)
  warned,       \* per process: write_binary printed the row-count warning
  log,          \* per process: what the loop body did, in order
  args,         \* main: the parsed command line
  mpc,          \* main: where it is
  selected,     \* main: the names resolve_cities returned, in order
  pairIdx,      \* main: number of (city, year) pairs already finished
  status        \* main: exit status (-1 while running)

vars ==
  <<fs, pc, job, df, wb, ret, warned, log, args, mpc, selected, pairIdx, status>>

procVars == <<pc, job, df, wb, ret, warned, log>>

mainVars == <<args, mpc, selected, pairIdx, status>>

NoJob ==
  [name |-> "", latitude |-> 0, longitude |-> 0, altitude |-> 0,
   timezone |-> "", year |-> 0, csv |-> FALSE]

MkJob(loc, year, csv) ==
  [name |-> loc.name, latitude |-> loc.latitude, longitude |-> loc.longitude,
   altitude |-> loc.altitude, timezone |-> loc.timezone, year |-> year,
   csv |-> csv]

\* `before` keeps the file as it was when write_binary was called.
NoCall == [year |-> 0, path |-> "", before |-> [exists |-> FALSE, data |-> <<>>]]

NoArgs == [csv |-> FALSE, cities |-> <<>>, years |-> <<>>]

-----------------------------------------------------------------------------
(* compute_solar_positions *)

\* Lines 74-91: build the index, call the position function once for the
\* whole index, keep the two columns.  An exception of the position function
\* propagates to the caller.
ComputeSolarPositions(p) ==
  /\ pc[p] = "compute"
  /\ \E out \in Outcomes :
       IF out = "raise"
       THEN /\ pc' = [pc EXCEPT ![p] = "error"]
            /\ df' = [df EXCEPT ![p] = NoDf]
       ELSE /\ pc' = [pc EXCEPT ![p] = "computed"]
            /\ df' = [df EXCEPT ![p] =
                 SolposFrame(job[p], job[p].year,
                             RangeStart(job[p].timezone, job[p].year),
                             RangeLen(job[p].timezone, job[p].year), out)]
  /\ UNCHANGED <<fs, job, wb, ret, warned, log, mainVars>>

-----------------------------------------------------------------------------
(* write_binary, one action per statement that touches the file *)

ExpectedMinutes(year) == (IF isleap(year) THEN 366 ELSE 365) * MINUTES_PER_DAY

WbGoto(p, next) ==
  /\ pc' = [pc EXCEPT ![p] = next]
  /\ UNCHANGED <<job, df, wb, ret, warned, log, mainVars>>

WbWrite(p, here, ext, next) ==
  /\ pc[p] = here
  /\ fs' = SetFile(fs, wb[p].path, FileWrite(FileAt(fs, wb[p].path), ext))
  /\ WbGoto(p, next)

\* Lines 105-107: os.makedirs, open(path, "wb").
WbOpen(p) ==
  /\ pc[p] = "wb_open"
  /\ fs' = SetFile(fs, wb[p].path, OpenWB(FileAt(fs, wb[p].path)))
  /\ WbGoto(p, "wb_magic")

\* Line 109.
WbMagic(p) == WbWrite(p, "wb_magic", BytesExt(MAGIC), "wb_version")

\* Line 110.
WbVersion(p) ==
  WbWrite(p, "wb_version", BytesExt(PackLE(VERSION, 2)), "wb_year")

\* Line 111: struct.pack("<h", year) raises for a year that is no int16; the
\* with block then closes the file as it is.
WbYear(p) ==
  IF InInt16(wb[p].year)
  THEN WbWrite(p, "wb_year", BytesExt(PackLE(wb[p].year, 2)), "wb_total")
  ELSE /\ pc[p] = "wb_year"
       /\ UNCHANGED fs
       /\ WbGoto(p, "error")

\* A writer that declares the number of rows it was given.
TotalFieldActual(d, year) == d.n

\* Line 112: the count the header declares.
TotalField(d, year) == ExpectedMinutes(year)

WbTotal(p) ==
  WbWrite(p, "wb_total", BytesExt(PackLE(TotalField(df[p], wb[p].year), 4)),
          "wb_reserved")

\* Line 113.
WbReserved(p) ==
  WbWrite(p, "wb_reserved", BytesExt(PackLE(0, 4)), "wb_payload")

\* Lines 116-123: the two columns as float32, interleaved, written at once.
WbPayload(p) ==
  WbWrite(p, "wb_payload", ArrExt(df[p], 2 * df[p].n), "wb_count")

\* Lines 125-129: the file is closed; count the rows, warn, return.
WbReturn(p) ==
  /\ pc[p] = "wb_count"
  /\ ret' = [ret EXCEPT ![p] = df[p].n]
  /\ warned' = [warned EXCEPT ![p] = (df[p].n # ExpectedMinutes(wb[p].year))]
  /\ pc' = [pc EXCEPT ![p] = "wb_done"]
  /\ UNCHANGED <<fs, job, df, wb, log, mainVars>>

InWith(p) ==
  pc[p] \in {"wb_magic", "wb_version", "wb_year", "wb_total", "wb_reserved",
             "wb_payload"}

\* An exception inside the with block (OSError of a write, MemoryError of an
\* array allocation, KeyboardInterrupt): the with block closes the file with
\* what was written so far and the exception propagates.  A failing write
\* of the payload may have put k of its elements on disk.
WbFail(p) ==
  /\ InWith(p)
  /\ \E k \in {0, df[p].n} :
       /\ k > 0 => pc[p] = "wb_payload"
       /\ fs' = SetFile(fs, wb[p].path,
                        FileWrite(FileAt(fs, wb[p].path), ArrExt(df[p], k)))
  /\ WbGoto(p, "error")

WriteBinaryStep(p) ==
  \/ WbOpen(p) \/ WbMagic(p) \/ WbVersion(p) \/ WbYear(p) \/ WbTotal(p)
  \/ WbReserved(p) \/ WbPayload(p) \/ WbReturn(p)

-----------------------------------------------------------------------------
(* The body of main's loop: one (city, year) job *)

Event(ev, j) == [name |-> j.name, year |-> j.year, ev |-> ev]

\* Lines 215-216: the call of write_binary.
JobCallWriteBinary(p) ==
  /\ pc[p] = "computed"
  /\ job[p] # NoJob
  /\ wb' = [wb EXCEPT ![p] =
       [year |-> job[p].year, path |-> BinPath(job[p].name, job[p].year),
        before |-> FileAt(fs, BinPath(job[p].name, job[p].year))]]
  /\ pc' = [pc EXCEPT ![p] = "wb_open"]
  /\ UNCHANGED <<fs, job, df, ret, warned, log, mainVars>>

\* Lines 217-221: the binary is reported, then the CSV is written if asked.
JobAfterBinary(p) ==
  /\ pc[p] = "wb_done"
  /\ job[p] # NoJob
  /\ log' = [log EXCEPT ![p] = Append(@, Event("bin", job[p]))]
  /\ pc' = [pc EXCEPT ![p] = IF job[p].csv THEN "csv" ELSE "job_done"]
  /\ UNCHANGED <<fs, job, df, wb, ret, warned, mainVars>>

\* Lines 222-225 and write_csv: DataFrame.to_csv replaces the file.
JobWriteCsv(p) ==
  /\ pc[p] = "csv"
  /\ fs' = SetFile(fs, CsvPath(job[p].name, job[p].year),
                   [exists |-> TRUE, data |-> <<CsvExt(df[p])>>])
  /\ log' = [log EXCEPT ![p] = Append(@, Event("csv", job[p]))]
  /\ pc' = [pc EXCEPT ![p] = "job_done"]
  /\ UNCHANGED <<job, df, wb, ret, warned, mainVars>>

JobStep(p) ==
  \/ ComputeSolarPositions(p)
  \/ JobCallWriteBinary(p)
  \/ WriteBinaryStep(p)
  \/ WbFail(p)
  \/ JobAfterBinary(p)
  \/ JobWriteCsv(p)

-----------------------------------------------------------------------------
(* resolve_cities and main *)

\* str.lower on the names at hand.
Lower(s) ==
  CASE s = "Manhattan" -> "manhattan"
    [] s = "ALL"       -> "all"
    [] s = "All"       -> "all"
    [] s = "Gotham"    -> "gotham"
    [] OTHER           -> s

CityNames == [i \in 1..Len(Cities) |-> Cities[i].name]

InSeq(x, seq) == \E i \in 1..Len(seq) : seq[i] = x

\* {k: v for k, v in Cities.items() if k.lower() == name.lower()}
Match(name) == SelectSeq(CityNames, LAMBDA k : Lower(k) = Lower(name))

\* dict.update: keys already present keep their place.
RECURSIVE Update(_, _)
Update(sel, keys) ==
  IF keys = <<>> THEN sel
  ELSE Update(IF InSeq(Head(keys), sel) THEN sel ELSE Append(sel, Head(keys)),
              Tail(keys))

\* Lines 174-182: the loop over the requested names.
RECURSIVE ResolveLoop(_, _)
ResolveLoop(requested, sel) ==
  IF requested = <<>> THEN [ok |-> TRUE, names |-> sel]
  ELSE IF Match(Head(requested)) = <<>> THEN [ok |-> FALSE, names |-> <<>>]
  ELSE ResolveLoop(Tail(requested), Update(sel, Match(Head(requested))))

\* Lines 171-172: "all", in any case, selects the whole table.
WantsAll(requested) ==
  \E i \in 1..Len(requested) : Lower(requested[i]) = "all"

\* A lookup that passes over the names it does not know.
resolve_lenient(requested) ==
  IF WantsAll(requested)
  THEN [ok |-> TRUE, names |-> CityNames]
  ELSE ResolveLoop(SelectSeq(requested, LAMBDA n : Match(n) # <<>>), <<>>)

resolve_cities(requested) ==
  IF WantsAll(requested)
  THEN [ok |-> TRUE, names |-> CityNames]
  ELSE ResolveLoop(requested, <<>>)

CityInfo(name) == Cities[CHOOSE i \in 1..Len(Cities) : Cities[i].name = name]

NumPairs == Len(selected) * Len(args.years)

PairCity(k) == selected[(k \div Len(args.years)) + 1]

PairYear(k) == args.years[(k % Len(args.years)) + 1]

\* Lines 189-190; sys.exit(1) on an unknown name.
MainResolve ==
  /\ mpc = "resolve"
  /\ LET r == resolve_cities(args.cities)
     IN  IF r.ok
         THEN /\ selected' = r.names
              /\ mpc' = "loop"
              /\ status' = status
         ELSE /\ selected' = selected
              /\ mpc' = "exit"
              /\ status' = 1
  /\ UNCHANGED <<fs, procVars, args, pairIdx>>

\* Lines 202-206: the next (city, year) of the two nested loops.
MainStartPair ==
  /\ mpc = "loop"
  /\ pc[1] = "idle"
  /\ pairIdx < NumPairs
  /\ LET j == MkJob(CityInfo(PairCity(pairIdx)), PairYear(pairIdx), args.csv)
     IN  /\ job' = [job EXCEPT ![1] = j]
         /\ log' = [log EXCEPT ![1] = Append(@, Event("start", j))]
  /\ pc' = [pc EXCEPT ![1] = "compute"]
  /\ UNCHANGED <<fs, df, wb, ret, warned, mainVars>>

\* Line 227.
MainEndPair ==
  /\ mpc = "loop"
  /\ pc[1] = "job_done"
  /\ pairIdx' = pairIdx + 1
  /\ pc' = [pc EXCEPT ![1] = "idle"]
  /\ UNCHANGED <<fs, job, df, wb, ret, warned, log, args, mpc, selected, status>>

\* Line 229.
MainDone ==
  /\ mpc = "loop"
  /\ pc[1] = "idle"
  /\ pairIdx = NumPairs
  /\ mpc' = "done"
  /\ status' = 0
  /\ UNCHANGED <<fs, procVars, args, selected, pairIdx>>

\* An exception nobody catches ends the interpreter with status 1.
MainCrash ==
  /\ mpc = "loop"
  /\ pc[1] = "error"
  /\ mpc' = "crashed"
  /\ status' = 1
  /\ UNCHANGED <<fs, procVars, args, selected, pairIdx>>

SeqsUpTo(S, n) == UNION { [1..k -> S] : k \in 1..n }

EmptyFs == [path \in {} |-> Absent]

ProcInit ==
  /\ fs = EmptyFs
  /\ df = [p \in Procs |-> NoDf]
  /\ wb = [p \in Procs |-> NoCall]
  /\ ret = [p \in Procs |-> -1]
  /\ warned = [p \in Procs |-> FALSE]

NoJobs ==
  /\ job = [p \in Procs |-> NoJob]
  /\ log = [p \in Procs |-> <<>>]

\* main: parse_args gives at least one city name and one year (nargs="+").
Init ==
  /\ ProcInit
  /\ NoJobs
  /\ pc = [p \in Procs |-> "idle"]
  /\ args \in [csv : BOOLEAN, cities : SeqsUpTo(ArgNames, MaxArgs),
               years : MainYearLists]
  /\ mpc = "resolve"
  /\ selected = <<>>
  /\ pairIdx = 0
  /\ status = -1

Next ==
  \/ MainResolve
  \/ MainStartPair
  \/ JobStep(1)
  \/ MainEndPair
  \/ MainDone
  \/ MainCrash

Spec == Init /\ [][Next]_vars

-----------------------------------------------------------------------------
(* Two jobs run side by side, as a caller with two workers would run the   *)
(* loop body for two different (city, year) pairs.                          *)

ParYears == {2014, 2024}

ParLocations == { l \in Locations : l.name \in {"Manhattan", "Moscow"} }

ParJobs == { MkJob(l, y, c) : l \in ParLocations, y \in ParYears, c \in BOOLEAN }

InitPar ==
  /\ ProcInit
  /\ pc = [p \in Procs |-> "compute"]
  /\ \E j1 \in ParJobs, j2 \in ParJobs :
       /\ <<j1.name, j1.year>> # <<j2.name, j2.year>>
       /\ j1.csv = j2.csv
       /\ job = [p \in Procs |-> IF p = 1 THEN j1 ELSE j2]
       /\ log = [p \in Procs |-> <<Event("start", IF p = 1 THEN j1 ELSE j2)>>]
  /\ args = NoArgs
  /\ mpc = "workers"
  /\ selected = <<>>
  /\ pairIdx = 0
  /\ status = -1

NextPar == \E p \in Procs : JobStep(p)

SpecPar == InitPar /\ [][NextPar]_vars

-----------------------------------------------------------------------------
(* The two functions called directly, one call after another, by a caller  *)
(* that chooses the arguments.                                             *)

FnPath == BinPath("Manhattan", 2024)

\* compute_solar_positions(latitude, longitude, altitude, timezone, year)
FnCallCompute ==
  /\ pc[1] = "idle"
  /\ \E l \in Locations, y \in Years :
       job' = [job EXCEPT ![1] = MkJob(l, y, FALSE)]
  /\ pc' = [pc EXCEPT ![1] = "compute"]
  /\ df' = [df EXCEPT ![1] = NoDf]
  /\ wb' = [wb EXCEPT ![1] = NoCall]
  /\ ret' = [ret EXCEPT ![1] = -1]
  /\ warned' = [warned EXCEPT ![1] = FALSE]
  /\ UNCHANGED <<fs, log, mainVars>>

\* The caller builds a frame of n rows itself.
FnMakeSeries ==
  /\ pc[1] = "idle"
  /\ \E n \in 0..MaxRows : df' = [df EXCEPT ![1] = CallerFrame(n)]
  /\ job' = [job EXCEPT ![1] = NoJob]
  /\ wb' = [wb EXCEPT ![1] = NoCall]
  /\ ret' = [ret EXCEPT ![1] = -1]
  /\ warned' = [warned EXCEPT ![1] = FALSE]
  /\ UNCHANGED <<fs, pc, log, mainVars>>

\* write_binary(df, path, year) on the frame at hand.
FnCallWriteBinary ==
  /\ \/ pc[1] = "computed"
     \/ pc[1] = "idle" /\ df[1] # NoDf
  /\ \E y \in Years : wb' = [wb EXCEPT ![1] =
       [year |-> y, path |-> FnPath, before |-> FileAt(fs, FnPath)]]
  /\ pc' = [pc EXCEPT ![1] = "wb_open"]
  /\ ret' = [ret EXCEPT ![1] = -1]
  /\ warned' = [warned EXCEPT ![1] = FALSE]
  /\ UNCHANGED <<fs, job, df, log, mainVars>>

\* The call is over: it returned, or the caller caught its exception.
FnReturn ==
  /\ pc[1] \in {"wb_done", "error"}
  /\ pc' = [pc EXCEPT ![1] = "idle"]
  /\ UNCHANGED <<fs, job, df, wb, ret, warned, log, mainVars>>

InitFn ==
  /\ ProcInit
  /\ NoJobs
  /\ pc = [p \in Procs |-> "idle"]
  /\ args = NoArgs
  /\ mpc = "caller"
  /\ selected = <<>>
  /\ pairIdx = 0
  /\ status = -1

NextFn ==
  \/ FnCallCompute
  \/ FnMakeSeries
  \/ FnCallWriteBinary
  \/ ComputeSolarPositions(1)
  \/ WriteBinaryStep(1)
  \/ WbFail(1)
  \/ FnReturn

SpecFn == InitFn /\ [][NextFn]_vars

-----------------------------------------------------------------------------
(* Properties *)

HeaderSize == 16

RecordSize == 8

Done(p) == pc[p] = "wb_done"

WrittenFile(p) == FileAt(fs, wb[p].path)

\* Days and minutes a reader looks up: around the DST changes of the model's
\* timezones and at both ends of the year.
ProbeDays(year) == {1, 2, 68, 69, 70, 71, 200, 306, 308, 309, DaysInYear(year)}

ProbeMinutes == {0, 1, 119, 120, 179, 180, 720, 1439}

\* Rows of an n-row series a reader looks up.
ProbeRows(n) == { i \in {0, 1, 2, n \div 2, n - 2, n - 1} : 0 <= i /\ i < n }

\* Number of rows of frame d whose instant falls on local day `day`.
RowsOnLocalDay(d, day) ==
  LET lo == (day - 1) * MINUTES_PER_DAY - 720
      hi == day * MINUTES_PER_DAY + 720
  IN  Cardinality({ i \in lo..hi :
        /\ 0 <= i /\ i < d.n
        /\ LocalDayOfYear(d.timezone, d.year, d.first + i) = day })

\* C1: in the series compute_solar_positions returns, the sample at index
\* (dayOfYear - 1) * 1440 + minuteOfDay is the one of that local wall-clock
\* minute, and every local day, a day with a DST change included, has exactly
\* 1440 samples.
C1_IndexIsLocalWallClock ==
  \A p \in Procs :
    df[p].src = "spa" =>
      \A day \in ProbeDays(df[p].year) :
        /\ RowsOnLocalDay(df[p], day) = MINUTES_PER_DAY
        /\ \A m \in ProbeMinutes :
             LET i == (day - 1) * MINUTES_PER_DAY + m
             IN  /\ i < df[p].n
                 /\ LocalDayOfYear(df[p].timezone, df[p].year,
                                   df[p].first + i) = day
                 /\ LocalMinuteOfDay(df[p].timezone, df[p].year,
                                     df[p].first + i) = m

\* C2: the series compute_solar_positions returns has daysInYear(year) * 1440
\* samples whatever the timezone's offsets at the two ends of the year are,
\* and the file written from it for that year has 16 + daysInYear(year) *
\* 1440 * 8 bytes.
C2_SeriesLength ==
  \A p \in Procs :
    df[p].src = "spa" =>
      /\ df[p].n = DaysInYear(df[p].year) * MINUTES_PER_DAY
      /\ (Done(p) /\ wb[p].year = df[p].year) =>
           FileSize(WrittenFile(p)) =
             HeaderSize + DaysInYear(df[p].year) * MINUTES_PER_DAY * RecordSize

\* C3: when write_binary returns, the row-count warning was printed exactly
\* if the series has not the expected length; in either case the file holds
\* every record of the series, the header's count is the expected one, and
\* the file size is 16 + count * 8 exactly if the lengths agree.
C3_SizeMismatchStillWritten ==
  \A p \in Procs :
    Done(p) =>
      LET f == WrittenFile(p)
          expected == DaysInYear(wb[p].year) * MINUTES_PER_DAY
          declared == UnpackLE(BytesAt(f, 8, 4))
      IN  /\ warned[p] <=> (df[p].n # expected)
          /\ f.exists
          /\ ret[p] = df[p].n
          /\ FileSize(f) = HeaderSize + RecordSize * df[p].n
          /\ declared = expected
          /\ (FileSize(f) = HeaderSize + declared * RecordSize)
               <=> (df[p].n = expected)

C3_Witness ==
  /\ Done(1)
  /\ warned[1]
  /\ df[1].n > 0
  /\ df[1].n # ExpectedMinutes(wb[1].year)
  /\ FileSize(WrittenFile(1)) = HeaderSize + RecordSize * df[1].n

\* C4: the file write_binary leaves is the 16-byte header (magic "SLRD",
\* version 1, year, expected count, 0) followed by one 8-byte record per
\* row, record i at offset 16 + 8 * i holding azimuth i then elevation i,
\* and nothing after the last record.
C4_FileLayout ==
  \A p \in Procs :
    Done(p) =>
      LET f == WrittenFile(p)
      IN  /\ BytesAt(f, 0, 4) = MAGIC
          /\ UnpackLE(BytesAt(f, 4, 2)) = VERSION
          /\ UnpackLE(BytesAt(f, 6, 2)) = wb[p].year
          /\ UnpackLE(BytesAt(f, 8, 4)) =
               DaysInYear(wb[p].year) * MINUTES_PER_DAY
          /\ UnpackLE(BytesAt(f, 12, 4)) = 0
          /\ \A i \in ProbeRows(df[p].n) :
               /\ Float32At(f, HeaderSize + RecordSize * i) =
                    AsFloat32(Column(df[p], "azimuth", i))
               /\ Float32At(f, HeaderSize + RecordSize * i + 4) =
                    AsFloat32(Column(df[p], "apparent_elevation", i))
          /\ FileSize(f) = HeaderSize + RecordSize * df[p].n
          /\ Float32At(f, HeaderSize + RecordSize * df[p].n) = NoValue

C4_Witness ==
  /\ Done(1)
  /\ df[1].src = "spa"
  /\ df[1].n > 1440
  /\ Float32At(WrittenFile(1), HeaderSize + RecordSize * (df[1].n - 1) + 4) =
       AsFloat32(Column(df[1], "apparent_elevation", df[1].n - 1))

\* The header write_binary packs for a year.
EncodedHeader(year) ==
  MAGIC \o PackLE(VERSION, 2) \o PackLE(year, 2)
        \o PackLE(DaysInYear(year) * MINUTES_PER_DAY, 4) \o PackLE(0, 4)

\* The file that holds the header of `year` and every row of frame d.
EncodedFile(d, year) ==
  [exists |-> TRUE,
   data |-> <<BytesExt(EncodedHeader(year))>>
              \o (IF d.n > 0 THEN <<ArrExt(d, 2 * d.n)>> ELSE <<>>)]

CsvFile(d) == [exists |-> TRUE, data |-> <<CsvExt(d)>>]

\* A binary file is complete when it is a whole header followed by every
\* element of one frame.
CompleteBinary(f) ==
  /\ f.exists
  /\ \A off \in 0..(HeaderSize - 1) : ByteAt(f, off) >= 0
  /\ Len(f.data) = 2
  /\ f.data[2].k = "f32"
  /\ f.data[2].n = 2 * f.data[2].df.n

\* The paths of binary files the file system knows.
BinPaths ==
  { path \in DOMAIN fs :
      \E l \in Locations, y \in Years \cup MainYears :
        path = BinPath(l.name, y) }

\* C5: at every moment of a generation job, a failed or interrupted one
\* included, the file at the final path is absent or a complete file; never
\* an empty, header-only or cut-short one.
C5_NeverPartialAtFinalPath ==
  \A path \in BinPaths :
    ~FileAt(fs, path).exists \/ CompleteBinary(FileAt(fs, path))

\* A float32 of the file is NaN or an infinity.
HoldsNonFinite(f) ==
  \E i \in 1..Len(f.data) :
    /\ f.data[i].k = "f32"
    /\ \E j \in { 2 * f.data[i].df.bad, 2 * f.data[i].df.bad + 1 } :
         /\ 0 <= j /\ j < f.data[i].n
         /\ Interleaved(f.data[i].df, j).cls # "finite"

\* C6: when the position function raises or returns a NaN or an infinity,
\* the job aborts: it writes no file, and no file ever holds a non-finite
\* value.
C6_NonFiniteAborts ==
  /\ \A p \in Procs :
       df[p].bad >= 0 => pc[p] \notin {"wb_count", "wb_done", "csv", "job_done"}
  /\ \A path \in BinPaths : ~HoldsNonFinite(FileAt(fs, path))

\* The ranges of a location.
ValidLocation(j) ==
  /\ -900000 <= j.latitude /\ j.latitude <= 900000
  /\ -1800000 <= j.longitude /\ j.longitude <= 1800000
  /\ j.altitude >= -500

Writing(p) ==
  pc[p] \in {"wb_open", "wb_magic", "wb_version", "wb_year", "wb_total",
             "wb_reserved", "wb_payload", "wb_count", "wb_done", "csv",
             "job_done"}

\* C7: for a location out of range the job fails before the position
\* function is called and before a file is touched.
C7_InvalidLocationRejected ==
  \A p \in Procs :
    (job[p] # NoJob /\ ~ValidLocation(job[p])) =>
      /\ df[p].src # "spa"
      /\ pc[p] # "computed"
      /\ ~Writing(p)

\* C8: when write_binary returns, the file is the encoding of (series, year)
\* and nothing else, whatever the path held before; writing the same series
\* over its own file leaves the file as it was.
C8_OverwrittenWholesale ==
  \A p \in Procs :
    Done(p) =>
      /\ WrittenFile(p) = EncodedFile(df[p], wb[p].year)
      /\ wb[p].before = EncodedFile(df[p], wb[p].year) =>
           WrittenFile(p) = wb[p].before

C8_Witness ==
  /\ Done(1)
  /\ wb[1].before.exists
  /\ FileSize(wb[1].before) > FileSize(WrittenFile(1))
  /\ FileSize(WrittenFile(1)) > HeaderSize

Own(p) ==
  { BinPath(job[p].name, job[p].year), CsvPath(job[p].name, job[p].year) }

\* C9: two jobs for different (city, year) pairs have different paths; a
\* step of one job changes no file but its own and none of the other job's;
\* when both are done the files are the ones each job alone produces.
C9_JobsIndependent ==
  /\ [](Own(1) \cap Own(2) = {})
  /\ [][\A p \in Procs :
          /\ pc'[p] = pc[p] =>
               \A path \in Own(p) : FileAt(fs', path) = FileAt(fs, path)
          /\ pc'[p] # pc[p] =>
               \A path \in (DOMAIN fs \cup DOMAIN fs') \ Own(p) :
                 FileAt(fs', path) = FileAt(fs, path)]_vars
  /\ []((\A p \in Procs : pc[p] = "job_done") =>
          /\ \A p \in Procs :
               /\ FileAt(fs, BinPath(job[p].name, job[p].year)) =
                    EncodedFile(df[p], job[p].year)
               /\ FileAt(fs, CsvPath(job[p].name, job[p].year)) =
                    IF job[p].csv THEN CsvFile(df[p]) ELSE Absent
          /\ DOMAIN fs \subseteq Own(1) \cup Own(2))

C9_Witness ==
  /\ \A p \in Procs : pc[p] = "job_done"
  /\ job[1].name = job[2].name
  /\ job[1].csv
  /\ FileAt(fs, BinPath(job[1].name, job[1].year)) #
       FileAt(fs, BinPath(job[2].name, job[2].year))

\* A requested name that matches no name of the table, whatever the case.
SomeUnknown ==
  \E i \in 1..Len(args.cities) :
    \A k \in 1..Len(CityNames) : Lower(CityNames[k]) # Lower(args.cities[i])

\* The run stopped in resolve_cities: nothing computed, nothing written.
RejectedRun ==
  /\ mpc \in {"resolve", "exit"}
  /\ mpc = "exit" => status = 1
  /\ log[1] = <<>>
  /\ pc[1] = "idle"
  /\ df[1] = NoDf
  /\ fs = EmptyFs

PairEvents(k) ==
  LET j == [name |-> PairCity(k), year |-> PairYear(k)]
  IN  <<Event("start", j), Event("bin", j)>>
        \o (IF args.csv THEN <<Event("csv", j)>> ELSE <<>>)

RECURSIVE EventsUpTo(_)
EventsUpTo(k) == IF k = 0 THEN <<>> ELSE EventsUpTo(k - 1) \o PairEvents(k - 1)

IsPrefix(a, b) == Len(a) <= Len(b) /\ a = SubSeq(b, 1, Len(a))

\* The run goes through the selected pairs in order, the binary of a pair
\* before its CSV and before the next pair.
OrderedRun(allRequested) ==
  /\ mpc # "exit"
  /\ mpc # "resolve" =>
       /\ IsPrefix(log[1], EventsUpTo(NumPairs))
       /\ IsPrefix(EventsUpTo(pairIdx), log[1])
       /\ \A i \in 1..Len(selected) :
            /\ InSeq(selected[i], CityNames)
            /\ \A k \in 1..Len(selected) : selected[k] = selected[i] => k = i
       /\ IF allRequested
          THEN selected = CityNames
          ELSE \A i \in 1..Len(args.cities) :
                 \E k \in 1..Len(selected) :
                   Lower(selected[k]) = Lower(args.cities[i])
       /\ \A i \in 1..Len(log[1]) :
            log[1][i].ev \in {"bin", "csv"} =>
              FileAt(fs, BinPath(log[1][i].name, log[1][i].year)).exists
       /\ \A i \in 1..Len(log[1]) :
            log[1][i].ev = "csv" =>
              FileAt(fs, CsvPath(log[1][i].name, log[1][i].year)).exists
  /\ mpc = "done" => (log[1] = EventsUpTo(NumPairs) /\ status = 0)

RunAsClaimed(allRequested) ==
  IF SomeUnknown /\ ~allRequested THEN RejectedRun
  ELSE OrderedRun(allRequested)

=============================================================================
